---- MODULE Spec2Model ----
(***************************************************************************)
(* Balaur: a daemonizing supervisor for Node.js applications.              *)
(*                                                                         *)
(* The model follows class Balaur (src/unnamed/part_000, lines 207-551).   *)
(* Every OS process that runs the program is one entry of `proc`: the     *)
(* command processes an operator starts (start / stop / restart), the      *)
(* detached processes made by #startDaemon (childProcess.fork) and the     *)
(* cluster workers made by cluster.fork().  All three re-execute the same  *)
(* entry point: the constructor loads the pidfile once, then yargs runs    *)
(* the command handler.  The pidfile is the only state they share.         *)
(*                                                                         *)
(* Environment: Node's cluster module as documented (a worker stays in     *)
(* cluster.workers until the master has seen it exit), POSIX signals       *)
(* (a signal without an installed handler ends the process).               *)
(***************************************************************************)
EXTENDS Integers, Sequences, FiniteSets

\* ------------------------------------------------------------------ bounds
MaxCmds == 2          \* command invocations by the operator in one run
MaxDaemons == 2       \* processes #startDaemon may create in one run
MaxWorkerCount == 2   \* largest configured config.workers
MaxExits == 2         \* worker endings per master lifetime under Spec
MaxLen == 2           \* characters of a pidfile found at the start (RegistrySpec)

\* --------------------------------------------------------- program constants
EXIT_CODE_OK == 0
EXIT_CODE_CATCH_ALL == 1
EXIT_CODE_CANNOT_EXECUTE == 126
EXIT_CODE_UNHANDLED_REJECTION == 131
EXIT_CODE_UNHANDLED_EXCEPTION == 132
EXIT_CODE_TERMINATED == 255
\* the literal of `exitCount++ > 10`
RetryCeiling == 10
\* #pid = null
NoPid == 0
\* parseInt's NaN
NaN == -1

\* ------------------------------------------------------------- process ids
\* worker processes existing at the same time: a full pool and one more
MaxWorkerSlots == MaxWorkerCount + 1
\* Pids handed out by the OS.  Only pids of #startDaemon children are ever
\* written to the pidfile; worker pids are recycled once the worker is gone.
DaemonPids == 1..MaxDaemons
WorkerPids == (MaxDaemons + 1)..(MaxDaemons + MaxWorkerSlots)
CmdPids == (MaxDaemons + MaxWorkerSlots + 1)..(MaxDaemons + MaxWorkerSlots + MaxCmds)
Pids == DaemonPids \cup WorkerPids \cup CmdPids
\* a pid on record whose process is gone, and one owned by another user
StalePid == MaxDaemons + MaxWorkerSlots + MaxCmds + 1
ForeignPid == MaxDaemons + MaxWorkerSlots + MaxCmds + 2

VARIABLES
  pidfile,   \* the file at #pidfilePath: [mode, data]
  workers,   \* #workers (config.workers)
  proc       \* the processes, by pid

vars == <<pidfile, workers, proc>>

\* ------------------------------------------------------------ Pid Registry
DigitChar == <<"0", "1", "2", "3", "4", "5", "6", "7", "8", "9">>
IsDigit(c) == \E d \in 1..10 : DigitChar[d] = c
DigitVal(c) == (CHOOSE d \in 1..10 : DigitChar[d] = c) - 1

\* child.pid.toString() and `${this.#pid}`
RECURSIVE ToString(_)
ToString(n) ==
  IF n < 10 THEN <<DigitChar[n + 1]>>
  ELSE ToString(n \div 10) \o <<DigitChar[(n % 10) + 1]>>

\* parseInt(data): the value of the longest prefix of decimal digits
RECURSIVE ParseDigits(_, _, _)
ParseDigits(s, i, acc) ==
  IF i > Len(s) \/ ~IsDigit(s[i]) THEN acc
  ELSE ParseDigits(s, i + 1, acc * 10 + DigitVal(s[i]))

ParseInt(s) ==
  IF Len(s) = 0 \/ ~IsDigit(s[1]) THEN NaN ELSE ParseDigits(s, 1, 0)

\* constructor: accessSync + readFileSync + parseInt, silent catch
Load(f) ==
  IF f.mode # "ok" THEN NoPid
  ELSE IF f.data = <<>> THEN NoPid
  ELSE IF ParseInt(f.data) = NaN THEN NoPid
  ELSE ParseInt(f.data)

\* fs.writeFileSync(this.#pidfilePath, text)
WriteFile(f, text) ==
  [mode |-> IF f.mode = "missing" THEN "ok" ELSE f.mode, data |-> text]

\* this.#pid ? `${this.#pid}` : ''
PidText(pid) == IF pid # NoPid THEN ToString(pid) ELSE <<>>

\* ---------------------------------------------------------------- processes
\* pc: "none" no such process, "new" created and not yet constructed,
\* "loaded" constructor done,
\* "forked" / "written" inside #startDaemon, "master" / "worker" the two roles
\* of #startSequence, "dead" a worker that ended and whose exit the master has
\* not handled yet, "exited" ended by process.exit or an uncaught error,
\* "killed" ended by a signal.
\* Besides the program's own variables a master counts its calls of
\* cluster.fork() (forkCount), its non-sentinel ungraceful exits (crashCount)
\* and the log lines 425 (fired) and 432 (denied); every process counts its
\* calls of #daemonizedFunction (calls).
Blank ==
  [pc |-> "none", name |-> "", force |-> FALSE, win |-> FALSE,
   snap |-> NoPid, child |-> NoPid, exit |-> 0,
   isM |-> FALSE, sigs |-> {}, exitCount |-> 0, gracefulExitCount |-> 0,
   crashCount |-> 0, fired |-> 0, denied |-> 0, forkCount |-> 0, calls |-> 0,
   master |-> NoPid, code |-> 0, eAD |-> FALSE]

\* cluster.isMaster / cluster.isWorker
IsMaster(p) == p \notin WorkerPids
IsWorker(p) == p \in WorkerPids

Alive(pr, p) == p \in Pids /\ pr[p].pc \notin {"none", "dead", "exited", "killed"}

\* cluster.workers of master m
Pool(pr, m) == {w \in WorkerPids : pr[w].pc # "none" /\ pr[w].master = m}
LiveWorkers(pr, m) == {w \in Pool(pr, m) : pr[w].pc # "dead"}

FreeDaemons(pr) == {d \in DaemonPids : pr[d].pc = "none"}
FreeSlots(pr) == {w \in WorkerPids : pr[w].pc = "none"}
Lowest(S) == CHOOSE x \in S : \A y \in S : x <= y

\* what process.kill(pid, sig) meets: "ok", or the error code it throws
KillOutcome(pr, pid) ==
  IF pid = NoPid THEN "ERR_INVALID_ARG_TYPE"
  ELSE IF pid = ForeignPid THEN "EPERM"
  ELSE IF Alive(pr, pid) THEN "ok"
  ELSE "ESRCH"

\* a faulty variant of ProcessExists: every error taken for "no such process"
ProcessExistsOkOnly(pr, pid) == KillOutcome(pr, pid) = "ok"

\* #processExists: process.kill(pid, 0) returned, or threw EPERM
ProcessExists(pr, pid) ==
  KillOutcome(pr, pid) = "ok" \/ KillOutcome(pr, pid) = "EPERM"

\* A process that is gone: a worker leaves its slot to its master's exit
\* handler while that master runs, and frees it otherwise; of another
\* process only the command, the exit status and the role it had remain.
Gone(pr, p, how, code) ==
  IF IsWorker(p)
  THEN IF Alive(pr, pr[p].master)
       THEN [pr EXCEPT ![p].pc = "dead", ![p].code = code]
       ELSE [pr EXCEPT ![p] = Blank]
  ELSE [pr EXCEPT ![p] = [Blank EXCEPT !.pc = how, !.exit = code,
                                        !.name = pr[p].name, !.isM = pr[p].isM]]

\* The end of a master: the workers already dead are forgotten, the others
\* live on without a master.
ReleaseDead(pr, m) ==
  [w \in Pids |->
     IF w \in Pool(pr, m) /\ pr[w].pc = "dead" THEN Blank ELSE pr[w]]

\* process.exit(code)
Exit(pr, p, code) ==
  IF IsWorker(p) THEN Gone(pr, p, "exited", code)
  ELSE ReleaseDead(Gone(pr, p, "exited", code), p)

\* a signal reaching process t: queued for the handlers #startSequence
\* installed, deadly without them
Deliver(pr, t, sig) ==
  IF pr[t].isM THEN [pr EXCEPT ![t].sigs = @ \cup {sig}]
  ELSE Gone(pr, t, "killed", 0)

\* cluster.fork(): a worker re-executing the entry point with the same argv
NewWorker(m) == [Blank EXCEPT !.pc = "new", !.name = "start", !.master = m]

RECURSIVE ForkWorkers(_, _, _)
ForkWorkers(pr, m, n) ==
  IF n = 0 THEN pr
  ELSE ForkWorkers([pr EXCEPT ![Lowest(FreeSlots(pr))] = NewWorker(m),
                              ![m].forkCount = @ + 1], m, n - 1)

\* a faulty variant of Disconnect: no worker is told to disconnect
DisconnectNothing(pr, m) == pr

\* cluster.disconnect(): every worker is marked exitedAfterDisconnect
Disconnect(pr, m) ==
  [w \in Pids |-> IF w \in Pool(pr, m) THEN [pr[w] EXCEPT !.eAD = TRUE] ELSE pr[w]]

\* a faulty variant of KillWorkers: the kill loop left out
KillNoWorkers(pr, m) == pr

\* for (const worker of Object.values(cluster.workers)) worker.process.kill('SIGKILL')
KillWorkers(pr, m) ==
  [w \in Pids |->
     IF w \in Pool(pr, m)
     THEN [pr[w] EXCEPT !.pc = "dead"]
     ELSE pr[w]]

\* ------------------------------------------------------------------ Init
InitialPidfiles ==
  {[mode |-> "missing", data |-> <<>>],
   [mode |-> "ok", data |-> ToString(StalePid)],
   [mode |-> "ok", data |-> ToString(ForeignPid)]}

Init ==
  /\ pidfile \in InitialPidfiles
  /\ workers \in 1..MaxWorkerCount
  /\ proc = [p \in Pids |-> Blank]

\* --------------------------------------------------------------- commands
\* The operator runs `start`, `stop [--force]` or `restart`; os.platform()
\* is read by `restart` alone.
Invocations ==
  {[name |-> "start", force |-> FALSE, win |-> FALSE],
   [name |-> "stop", force |-> FALSE, win |-> FALSE],
   [name |-> "stop", force |-> TRUE, win |-> FALSE],
   [name |-> "restart", force |-> FALSE, win |-> FALSE],
   [name |-> "restart", force |-> FALSE, win |-> TRUE]}

Issue(c, inv) ==
  /\ c \in CmdPids
  /\ proc[c].pc = "none"
  /\ \A d \in CmdPids : d < c => proc[d].pc # "none"
  /\ proc' = [proc EXCEPT ![c] = [Blank EXCEPT !.pc = "new", !.name = inv.name,
                                              !.force = inv.force, !.win = inv.win]]
  /\ UNCHANGED <<pidfile, workers>>

\* constructor: one snapshot of the pidfile
Construct(p) ==
  /\ proc[p].pc = "new"
  /\ proc' = [proc EXCEPT ![p].pc = "loaded", ![p].snap = Load(pidfile)]
  /\ UNCHANGED <<pidfile, workers>>

\* #startDaemon up to childProcess.fork: the child runs the same argv
StartDaemonFork(pr, p) ==
  [pr EXCEPT ![p].pc = "forked",
             ![p].child = Lowest(FreeDaemons(pr)),
             ![Lowest(FreeDaemons(pr))] = [Blank EXCEPT !.pc = "new", !.name = "start"]]

\* #startSequence: the master forks #workers workers and installs its
\* handlers; a worker calls the daemonized function
StartSequence(pr, p) ==
  IF IsMaster(p)
  THEN ForkWorkers([pr EXCEPT ![p].pc = "master", ![p].isM = TRUE], p, workers)
  ELSE [pr EXCEPT ![p].pc = "worker", ![p].calls = @ + 1]

\* a faulty variant of StartBranch: the liveness check forgotten
StartBranchNoProbe(pr, p) ==
  IF p = pr[p].snap THEN "sequence" ELSE "daemon"

\* which branch #start takes
StartBranch(pr, p) ==
  IF p = pr[p].snap THEN "sequence"
  ELSE IF ~ProcessExists(pr, pr[p].snap) THEN "daemon"
  ELSE IF IsMaster(p) THEN "refuse"
  ELSE "sequence"

\* #start
Start(p) ==
  /\ proc[p].pc = "loaded"
  /\ proc[p].name = "start"
  /\ LET b == StartBranch(proc, p) IN
       /\ b = "daemon" => FreeDaemons(proc) # {}
       /\ (b = "sequence" /\ IsMaster(p)) => Cardinality(FreeSlots(proc)) >= workers
       /\ proc' = CASE b = "sequence" -> StartSequence(proc, p)
                    [] b = "daemon" -> StartDaemonFork(proc, p)
                    [] OTHER -> Exit(proc, p, EXIT_CODE_CANNOT_EXECUTE)
  /\ UNCHANGED <<pidfile, workers>>

\* #startDaemon: fs.writeFileSync(this.#pidfilePath, child.pid.toString())
WritePid(p) ==
  /\ proc[p].pc = "forked"
  /\ pidfile' = WriteFile(pidfile, ToString(proc[p].child))
  /\ proc' = [proc EXCEPT ![p].pc = "written"]
  /\ UNCHANGED workers

\* #startDaemon: process.exit(Balaur.EXIT_CODE_OK)
LauncherExit(p) ==
  /\ proc[p].pc = "written"
  /\ proc' = Exit(proc, p, EXIT_CODE_OK)
  /\ UNCHANGED <<pidfile, workers>>

\* a faulty variant of StopSignal: --force ignored
StopSignalNoForce(force) == "SIGINT"

\* the signal `stop` sends
StopSignal(force) == IF force THEN "SIGTERM" ELSE "SIGINT"

\* the signal a control command sends
CommandSignal(r) == IF r.name = "stop" THEN StopSignal(r.force) ELSE "SIGHUP"

\* a faulty variant of ControlRefused: the liveness check negated
ControlRefusedInverted(pr, p) ==
  \/ ProcessExists(pr, pr[p].snap)
  \/ (pr[p].name = "restart" /\ pr[p].win)

\* #stop / #restart up to the liveness check (and restart's platform check)
ControlRefused(pr, p) ==
  \/ ~ProcessExists(pr, pr[p].snap)
  \/ (pr[p].name = "restart" /\ pr[p].win)

\* #stop / #restart: refuse, or rewrite the pidfile, process.kill and exit;
\* a kill that throws ends the command with the uncaught-error status
Control(p) ==
  /\ proc[p].pc = "loaded"
  /\ proc[p].name \in {"stop", "restart"}
  /\ IF ControlRefused(proc, p)
     THEN /\ proc' = Exit(proc, p, EXIT_CODE_CANNOT_EXECUTE)
          /\ pidfile' = pidfile
     ELSE /\ pidfile' = WriteFile(pidfile, PidText(proc[p].snap))
          /\ proc' =
               IF KillOutcome(proc, proc[p].snap) = "ok"
               THEN Exit(Deliver(proc, proc[p].snap, CommandSignal(proc[p])),
                         p, EXIT_CODE_OK)
               ELSE Exit(proc, p, EXIT_CODE_CATCH_ALL)
  /\ UNCHANGED workers

\* ------------------------------------------------------------ worker role
\* How a worker in the worker role ends: the daemonized code crashes with an
\* exit code, or disconnects itself (cluster.worker.disconnect()) and ends.
WorkerEndings ==
  {[code |-> EXIT_CODE_CATCH_ALL, graceful |-> FALSE],
   [code |-> EXIT_CODE_UNHANDLED_REJECTION, graceful |-> FALSE],
   [code |-> EXIT_CODE_UNHANDLED_EXCEPTION, graceful |-> FALSE],
   [code |-> EXIT_CODE_OK, graceful |-> TRUE]}

WorkerExit(w, e) ==
  /\ IsWorker(w)
  /\ proc[w].pc = "worker"
  /\ Alive(proc, proc[w].master)
  /\ proc' = Gone([proc EXCEPT ![w].eAD = e.graceful], w, "exited", e.code)
  /\ UNCHANGED <<pidfile, workers>>

\* A worker whose master is gone loses its IPC channel and may end at any
\* point where it is not inside synchronous code.
OrphanExit(w) ==
  /\ IsWorker(w)
  /\ proc[w].pc \in {"new", "loaded", "worker"}
  /\ ~Alive(proc, proc[w].master)
  /\ proc' = [proc EXCEPT ![w] = Blank]
  /\ UNCHANGED <<pidfile, workers>>

\* ------------------------------------------------------------ master role
\* a faulty variant of TooManyExits: the ceiling one too high
TooManyExitsLate(exitCount) == exitCount > RetryCeiling + 1

\* a faulty variant of TooManyExits: only the first exit past the ceiling
TooManyExitsOnce(exitCount) == exitCount = RetryCeiling + 1

\* a faulty variant of TooManyExits: the comparison the wrong way round
TooManyExitsReversed(exitCount) == exitCount < RetryCeiling

\* exitCount++ > 10, on the value before the increment
TooManyExits(exitCount) == exitCount > RetryCeiling

\* a faulty variant of IsSentinel: the unhandled-exception code forgotten
IsSentinelRejectionOnly(code) == code = EXIT_CODE_UNHANDLED_REJECTION

\* the two exit codes that are never answered by a fork
IsSentinel(code) ==
  code = EXIT_CODE_UNHANDLED_REJECTION \/ code = EXIT_CODE_UNHANDLED_EXCEPTION

\* a faulty variant of ExitVerdict: exitedAfterDisconnect not looked at
ExitVerdictIgnoresDisconnect(m, w) ==
  IF TooManyExits(m.exitCount) THEN "tooMany"
  ELSE IF IsSentinel(w.code) THEN "sentinel"
  ELSE "fork"

\* what the 'exit' handler decides for a worker that ended
ExitVerdict(m, w) ==
  IF w.eAD THEN "graceful"
  ELSE IF TooManyExits(m.exitCount) THEN "tooMany"
  ELSE IF IsSentinel(w.code) THEN "sentinel"
  ELSE "fork"

\* a faulty variant of AllGraceful: the event on every graceful exit
AllGracefulAlways(count) == count >= 1

\* ++gracefulExitCount === this.#workers
AllGraceful(count) == count = workers

\* cluster.on('exit', ...): the worker has left cluster.workers
OnExit(m, w) ==
  /\ proc[m].pc = "master"
  /\ w \in Pool(proc, m)
  /\ proc[w].pc = "dead"
  /\ LET v == ExitVerdict(proc[m], proc[w])
         reaped == [proc EXCEPT ![w] = Blank]
     IN proc' =
          CASE v = "graceful" ->
                 [reaped EXCEPT ![m].gracefulExitCount = @ + 1,
                                ![m].fired = IF AllGraceful(proc[m].gracefulExitCount + 1)
                                             THEN @ + 1 ELSE @]
            [] v = "fork" ->
                 ForkWorkers([reaped EXCEPT ![m].exitCount = @ + 1,
                                            ![m].crashCount = @ + 1], m, 1)
            [] v = "sentinel" -> [reaped EXCEPT ![m].exitCount = @ + 1]
            [] OTHER ->
                 [reaped EXCEPT ![m].exitCount = @ + 1,
                                ![m].denied = @ + 1,
                                ![m].crashCount = IF IsSentinel(proc[w].code)
                                                  THEN @ ELSE @ + 1]
  /\ UNCHANGED <<pidfile, workers>>

\* process.on('SIGHUP', ...) up to the fork inside #startDaemon
OnSIGHUP(m) ==
  /\ proc[m].pc = "master"
  /\ "SIGHUP" \in proc[m].sigs
  /\ FreeDaemons(proc) # {}
  /\ proc' = StartDaemonFork(
               KillWorkers(Disconnect([proc EXCEPT ![m].sigs = @ \ {"SIGHUP"}], m), m), m)
  /\ UNCHANGED <<pidfile, workers>>

\* process.on('SIGINT', ...): cluster.disconnect(); process.exit()
OnSIGINT(m) ==
  /\ proc[m].pc = "master"
  /\ "SIGINT" \in proc[m].sigs
  /\ proc' = Exit(Disconnect(proc, m), m, EXIT_CODE_OK)
  /\ UNCHANGED <<pidfile, workers>>

\* process.on('SIGTERM', ...): disconnect, kill every worker, exit 255
OnSIGTERM(m) ==
  /\ proc[m].pc = "master"
  /\ "SIGTERM" \in proc[m].sigs
  /\ proc' = Exit(KillWorkers(Disconnect(proc, m), m), m, EXIT_CODE_TERMINATED)
  /\ UNCHANGED <<pidfile, workers>>

\* ------------------------------------------------------------------ Next
\* Spec: every command, every signal, at most MaxExits worker endings per
\* master lifetime.
Endings(m) ==
  proc[m].exitCount + proc[m].gracefulExitCount
    + Cardinality(Pool(proc, m) \ LiveWorkers(proc, m))

ExitBudget(w) == proc[w].pc = "worker" /\ Endings(proc[w].master) < MaxExits

Next ==
  \/ \E c \in CmdPids, inv \in Invocations : Issue(c, inv)
  \/ \E p \in Pids : Construct(p)
  \/ \E p \in Pids : Start(p)
  \/ \E p \in Pids : WritePid(p)
  \/ \E p \in Pids : LauncherExit(p)
  \/ \E p \in CmdPids : Control(p)
  \/ \E w \in WorkerPids, e \in WorkerEndings : ExitBudget(w) /\ WorkerExit(w, e)
  \/ \E w \in WorkerPids : OrphanExit(w)
  \/ \E m \in DaemonPids, w \in WorkerPids : OnExit(m, w)
  \/ \E m \in DaemonPids : OnSIGHUP(m)
  \/ \E m \in DaemonPids : OnSIGINT(m)
  \/ \E m \in DaemonPids : OnSIGTERM(m)

Spec == Init /\ [][Next]_vars

\* PoolSpec: the lifetime of one master, from the moment `start` has launched
\* it, written its pid and exited; no further command, any number of worker
\* endings, up to and past the retry ceiling.
PoolInit ==
  /\ pidfile = [mode |-> "ok", data |-> ToString(Lowest(DaemonPids))]
  /\ workers \in 1..MaxWorkerSlots
  /\ proc = [p \in Pids |->
               IF p = Lowest(DaemonPids) THEN [Blank EXCEPT !.pc = "new", !.name = "start"]
               ELSE IF p = Lowest(CmdPids)
                    THEN [Blank EXCEPT !.pc = "exited", !.name = "start"]
               ELSE Blank]

PoolNext ==
  \/ \E p \in Pids : Construct(p)
  \/ \E p \in Pids : Start(p)
  \/ \E w \in WorkerPids, e \in WorkerEndings : WorkerExit(w, e)
  \/ \E m \in DaemonPids, w \in WorkerPids : OnExit(m, w)

PoolSpec == PoolInit /\ [][PoolNext]_vars

\* PoolFairSpec: PoolSpec where every process gets to run (the constructor and
\* the `start` handler of a process that was created, the master's exit
\* handler for a worker that ended: Node's event loop runs each callback that
\* is due) and where every worker in the worker role ends at some time.
PoolFairSpec ==
  /\ PoolInit /\ [][PoolNext]_vars
  /\ \A p \in Pids : WF_vars(Construct(p)) /\ WF_vars(Start(p))
  /\ \A w \in WorkerPids : WF_vars(\E e \in WorkerEndings : WorkerExit(w, e))
  /\ \A m \in DaemonPids, w \in WorkerPids : WF_vars(OnExit(m, w))

\* RegistrySpec: the commands and the processes they launch, over every
\* pidfile an operator may have left behind: missing, not readable, empty,
\* a pid, or text that is no pid.  No worker ends and no signal is handled.
FileChars == {"1", "2", "p"}
Contents == UNION {[1..n -> FileChars] : n \in 0..MaxLen}
RegistryFiles ==
  {[mode |-> "missing", data |-> <<>>]}
    \cup {[mode |-> m, data |-> d] : m \in {"ok", "unreadable"}, d \in Contents}

RegistryInit ==
  /\ pidfile \in RegistryFiles
  /\ workers = 1
  /\ proc = [p \in Pids |-> Blank]

RegistryNext ==
  \/ \E c \in CmdPids, inv \in Invocations : Issue(c, inv)
  \/ \E p \in Pids : Construct(p)
  \/ \E p \in Pids : Start(p)
  \/ \E p \in Pids : WritePid(p)
  \/ \E p \in Pids : LauncherExit(p)
  \/ \E p \in CmdPids : Control(p)

RegistrySpec == RegistryInit /\ [][RegistryNext]_vars

\* ================================================================ claims
\* processes created by a step (a freed worker slot may be taken at once)
Forked(pr, pr2) == {p \in Pids : pr2[p].pc = "new" /\ pr[p].pc # "new"}

\* every process but those of S is as it was
OthersUnchanged(S) == \A q \in Pids \ S : proc'[q] = proc[q]

\* what the OS answers to a signal for the pid process p has on record
Outcome(p) == KillOutcome(proc, proc[p].snap)
RecordedAlive(p) == Outcome(p) \in {"ok", "EPERM"}

\* process p ends its run with exit status code
ExitsWith(p, code) == proc'[p].pc = "exited" /\ proc'[p].exit = code

SentinelCodes == {EXIT_CODE_UNHANDLED_REJECTION, EXIT_CODE_UNHANDLED_EXCEPTION}

\* the exit handler of master m takes worker w, which ended ungracefully
\* with a code that is no sentinel
HandlesCrash(m, w) ==
  /\ OnExit(m, w)
  /\ ~proc[w].eAD
  /\ proc[w].code \notin SentinelCodes

\* C2 as stated: for N <= 10 the N-th ungraceful, non-sentinel exit is
\* answered by exactly one fork and the pool is back at workerCount.
C2_Original ==
  [][\A m \in DaemonPids, w \in WorkerPids :
       (HandlesCrash(m, w) /\ proc[m].crashCount + 1 <= RetryCeiling) =>
         /\ Cardinality(Forked(proc, proc')) = 1
         /\ Cardinality(Pool(proc', m)) = workers
    ]_vars

\* C2 amended: for N <= 10 the N-th ungraceful exit of a master's lifetime
\* (sentinel exits counted), when its code is no sentinel, is answered by
\* exactly one fork of a worker of that master, which leaves the pool at the
\* size it had before the exit: workerCount when no earlier exit was graceful
\* or went without a replacement.
C2_RespawnRestoresPool ==
  [][\A m \in DaemonPids, w \in WorkerPids :
       (HandlesCrash(m, w) /\ proc[m].exitCount + 1 <= RetryCeiling) =>
         /\ Cardinality(Forked(proc, proc')) = 1
         /\ \A n \in Forked(proc, proc') : n \in WorkerPids /\ proc'[n].master = m
         /\ Cardinality(Pool(proc', m)) = Cardinality(Pool(proc, m))
         /\ proc'[m].exitCount = proc[m].exitCount + 1
         /\ (proc[m].gracefulExitCount = 0 /\ proc[m].crashCount = proc[m].exitCount)
              => Cardinality(Pool(proc', m)) = workers
    ]_vars

\* C2 witness: the tenth ungraceful exit has been answered by a fork and the
\* pool is full
C2_Witness ==
  \E m \in DaemonPids :
    /\ proc[m].pc = "master"
    /\ proc[m].exitCount = RetryCeiling /\ proc[m].crashCount = RetryCeiling
    /\ Cardinality(Pool(proc, m)) = workers
    /\ \E w \in Pool(proc, m) : proc[w].pc = "new"

\* C3 as stated: the 11th ungraceful, non-sentinel exit is answered by no
\* fork and leaves the pool one worker short.
C3_EleventhNotRespawned ==
  [][\A m \in DaemonPids, w \in WorkerPids :
       (HandlesCrash(m, w) /\ proc[m].crashCount = RetryCeiling) =>
         /\ Forked(proc, proc') = {}
         /\ Cardinality(Pool(proc', m)) = Cardinality(Pool(proc, m)) - 1
    ]_vars

\* C4: an exit with code 131 or 132 is answered by no fork, whatever
\* exitCount is; the pool loses that worker, and no later step of the master
\* makes the pool larger.
C4_SentinelNeverRespawned ==
  [][\A m \in DaemonPids :
       /\ \A w \in WorkerPids :
            (OnExit(m, w) /\ proc[w].code \in SentinelCodes) =>
              /\ Forked(proc, proc') = {}
              /\ Pool(proc', m) = Pool(proc, m) \ {w}
       /\ (proc[m].pc = "master" /\ proc'[m].pc = "master") =>
              Cardinality(Pool(proc', m)) <= Cardinality(Pool(proc, m))
    ]_vars

\* C4 witness: the first exit of a lifetime (exitCount 0) carried a sentinel
\* code, and the pool is one short with no worker being started
C4_Witness ==
  \E m \in DaemonPids :
    /\ proc[m].pc = "master"
    /\ proc[m].exitCount = 1 /\ proc[m].crashCount = 0
    /\ proc[m].gracefulExitCount = 0
    /\ Cardinality(Pool(proc, m)) = workers - 1

\* C8: "All cluster workers exited gracefully" is logged at most once in a
\* master's lifetime, it has been logged exactly when gracefulExitCount has
\* reached workerCount, and once it has been logged the master's pool is empty.
C8_AllGracefulOnce ==
  \A m \in DaemonPids :
    proc[m].pc = "master" =>
      /\ proc[m].fired <= 1
      /\ proc[m].gracefulExitCount <= workers
      /\ (proc[m].fired = 1) <=> (proc[m].gracefulExitCount = workers)
      /\ proc[m].fired = 1 => Pool(proc, m) = {}

\* C8 witness: a pool of two or more has exited gracefully after a crash was
\* answered by a fork, and the event has fired
C8_Witness ==
  \E m \in DaemonPids :
    /\ proc[m].pc = "master"
    /\ workers >= 2
    /\ proc[m].fired = 1
    /\ proc[m].exitCount >= 1

\* a master that is inside the #startDaemon call of its SIGHUP handler
Relaunching(m) == proc[m].isM /\ proc[m].pc \in {"forked", "written"}

\* C5: the SIGHUP handler of a master ends every worker of its pool and
\* creates exactly one process through #startDaemon; the master then writes
\* that process's pid, which is not its own, to the pidfile, creates nothing
\* more, and exits 0.
C5_HangupRelaunch ==
  [][\A m \in DaemonPids :
       /\ OnSIGHUP(m) =>
            /\ \A w \in Pool(proc, m) : ~Alive(proc', w)
            /\ Cardinality(Forked(proc, proc')) = 1
            /\ Forked(proc, proc') = {proc'[m].child}
            /\ proc'[m].child \in DaemonPids \ {m}
            /\ Relaunching(m)'
            /\ pidfile' = pidfile
       /\ (Relaunching(m) /\ WritePid(m)) =>
            /\ Load(pidfile') = proc[m].child
            /\ Load(pidfile') # m
            /\ Forked(proc, proc') = {}
       /\ (Relaunching(m) /\ LauncherExit(m)) =>
            /\ ExitsWith(m, EXIT_CODE_OK)
            /\ Forked(proc, proc') = {}
            /\ pidfile' = pidfile
       /\ Relaunching(m) =>
            \/ Relaunching(m)' /\ proc'[m].child = proc[m].child
                 /\ (proc'[m].pc = "forked" => proc[m].pc = "forked")
            \/ proc[m].pc = "written" /\ proc'[m].pc = "exited"
    ]_vars

\* C5 witness: a master with a pool has handled SIGHUP: its workers are
\* ended and the pidfile holds the pid of the process it launched
C5_Witness ==
  \E m \in DaemonPids :
    /\ Relaunching(m) /\ proc[m].pc = "written"
    /\ Pool(proc, m) # {} /\ LiveWorkers(proc, m) = {}
    /\ Load(pidfile) = proc[m].child /\ proc[m].child # m
    /\ proc[proc[m].child].pc = "new"

\* the signal each control command is to send
ExpectedSignal(r) ==
  CASE r.name = "stop" /\ ~r.force -> "SIGINT"
    [] r.name = "stop" /\ r.force -> "SIGTERM"
    [] OTHER -> "SIGHUP"

\* the step delivers sig to process t and nothing else: handlers installed,
\* it becomes pending; no handlers, it ends t
Received(t, sig) ==
  IF proc[t].isM
  THEN proc'[t] = [proc[t] EXCEPT !.sigs = @ \cup {sig}]
  ELSE proc'[t].pc = "killed"

WinRestart(c) == proc[c].name = "restart" /\ proc[c].win

C7_RefusalsHaveNoEffect ==
  [][\A p \in Pids \ WorkerPids :
       (\/ Start(p) /\ p # proc[p].snap /\ RecordedAlive(p)
        \/ Control(p) /\ ~RecordedAlive(p)) =>
         /\ ExitsWith(p, EXIT_CODE_CANNOT_EXECUTE)
         /\ OthersUnchanged({p})
         /\ Forked(proc, proc') = {}
         /\ pidfile' = pidfile
    ]_vars

\* C7 witness: a live master is on record, a `start` has been refused, and
\* the master and the pidfile are untouched
C7_Witness ==
  \E c \in CmdPids, m \in DaemonPids :
    /\ proc[c].name = "start" /\ proc[c].pc = "exited"
    /\ proc[c].exit = EXIT_CODE_CANNOT_EXECUTE
    /\ proc[m].pc = "master" /\ proc[m].sigs = {} /\ Load(pidfile) = m

\* C9 witness: a foreign pid on record, `start` refused with 126 and `stop`
\* not refused as "not started"
C9_Witness ==
  \E c \in CmdPids, c2 \in CmdPids :
    /\ Load(pidfile) = ForeignPid
    /\ proc[c].name = "start" /\ proc[c].pc = "exited"
    /\ proc[c].exit = EXIT_CODE_CANNOT_EXECUTE
    /\ proc[c2].name = "stop" /\ proc[c2].pc = "exited"
    /\ proc[c2].exit = EXIT_CODE_CATCH_ALL

\* C9: a process that is no worker and not itself on record is refused by
\* `start` (126) exactly when a signal for the recorded pid is delivered or
\* meets EPERM, and launches exactly when it meets ESRCH or the pid is absent;
\* `stop` and `restart` (win32 aside) are refused as "not started" exactly in
\* the latter case.  So with a foreign pid on record `start` exits 126 and
\* neither `stop` nor `restart` reports "not started".
C9_ProbeTriState ==
  [][\A p \in Pids \ WorkerPids :
       /\ (Start(p) /\ p # proc[p].snap) =>
            /\ ExitsWith(p, EXIT_CODE_CANNOT_EXECUTE) <=> Outcome(p) \in {"ok", "EPERM"}
            /\ proc'[p].pc = "forked" <=> Outcome(p) \in {"ESRCH", "ERR_INVALID_ARG_TYPE"}
            /\ proc[p].snap = ForeignPid =>
                 ExitsWith(p, EXIT_CODE_CANNOT_EXECUTE) /\ Forked(proc, proc') = {}
       /\ (Control(p) /\ ~WinRestart(p)) =>
            /\ ExitsWith(p, EXIT_CODE_CANNOT_EXECUTE)
                 <=> Outcome(p) \in {"ESRCH", "ERR_INVALID_ARG_TYPE"}
            /\ proc[p].snap = ForeignPid => ~ExitsWith(p, EXIT_CODE_CANNOT_EXECUTE)
    ]_vars

\* C10 as stated: a process made by #startDaemon has its own pid as its
\* pidfile snapshot, and unless it has entered the master role it is never
\* inside #startDaemon and never ends with 126.
C10_SelfRecognition ==
  \A d \in DaemonPids :
    /\ proc[d].pc = "loaded" => proc[d].snap = d
    /\ ~proc[d].isM =>
         /\ proc[d].pc \notin {"forked", "written"}
         /\ ~(proc[d].pc = "exited" /\ proc[d].exit = EXIT_CODE_CANNOT_EXECUTE)

\* C11 as stated: `start` run by a worker process that finds no live process
\* on record (pid absent or dead) enters the worker role and creates no
\* process.
C11_WorkerStartsDirectly ==
  [][\A w \in WorkerPids :
       (Start(w) /\ ~RecordedAlive(w)) =>
         /\ proc'[w].pc = "worker"
         /\ Forked(proc, proc') = {}
    ]_vars

\* C12 as stated: no process in the master role and no command process ever
\* calls the daemonized function; a worker process calls it at most once,
\* and a worker process that has got through its `start` handler has called
\* it exactly once.
C12_UserFunctionOncePerWorker ==
  /\ \A p \in Pids \ WorkerPids : proc[p].calls = 0
  /\ \A w \in WorkerPids :
       /\ proc[w].calls <= 1
       /\ proc[w].pc \in {"worker", "forked", "written"} => proc[w].calls = 1

\* text that is not a decimal number: not empty, and not digits throughout
NonNumeric(data) == data # <<>> /\ \E i \in 1..Len(data) : ~IsDigit(data[i])

\* pids of one and of two digits
RoundTripPids == 1..(10 * ForeignPid)

\* C13 as stated: a pid written to a readable pidfile (by #startDaemon, by
\* `stop` or `restart`, or any pid of one or two digits) loads as that same
\* integer; the empty string written loads as absent; a missing, unreadable
\* or non-numeric pidfile is loaded by the constructor as absent.
C13_RegistryRoundTrip ==
  [][\A p \in Pids :
       /\ pidfile.mode # "unreadable" =>
            \A pid \in RoundTripPids : Load(WriteFile(pidfile, ToString(pid))) = pid
       /\ (WritePid(p) /\ pidfile.mode # "unreadable") => Load(pidfile') = proc[p].child
       /\ (Control(p) /\ pidfile' # pidfile /\ pidfile.mode # "unreadable") =>
            Load(pidfile') = proc[p].snap
       /\ Load(WriteFile(pidfile, <<>>)) = NoPid
       /\ (Construct(p) /\ (pidfile.mode \in {"missing", "unreadable"}
                            \/ NonNumeric(pidfile.data))) =>
            proc'[p].snap = NoPid
    ]_vars

\* C14: the SIGINT handler of a master marks every worker of its pool as
\* disconnected, ends none of them and exits the master with status 0; the
\* SIGTERM handler ends every worker of the pool and exits the master with
\* status 255; neither creates a process, writes the pidfile or touches a
\* process outside the pool.
C14_InterruptAndTerminate ==
  [][\A m \in DaemonPids :
       /\ OnSIGINT(m) =>
            /\ ExitsWith(m, EXIT_CODE_OK)
            /\ \A w \in LiveWorkers(proc, m) : proc'[w] = [proc[w] EXCEPT !.eAD = TRUE]
            /\ Forked(proc, proc') = {}
            /\ pidfile' = pidfile
            /\ OthersUnchanged({m} \cup Pool(proc, m))
       /\ OnSIGTERM(m) =>
            /\ ExitsWith(m, EXIT_CODE_TERMINATED)
            /\ \A w \in Pool(proc, m) : ~Alive(proc', w)
            /\ Forked(proc, proc') = {}
            /\ pidfile' = pidfile
            /\ OthersUnchanged({m} \cup Pool(proc, m))
    ]_vars

\* C14 witness: a master has handled SIGINT and exited 0, and a worker of its
\* pool is still running, marked as disconnected
C14_Witness ==
  \E m \in DaemonPids, w \in WorkerPids :
    /\ proc[m].pc = "exited" /\ proc[m].isM /\ proc[m].exit = EXIT_CODE_OK
    /\ proc[w].master = m /\ proc[w].pc = "worker" /\ proc[w].eAD

\* C15: the step by which a process enters the master role creates exactly
\* workerCount workers, all of them its own; in every state the workers of a
\* master that are running number at most workerCount; and the handling of a
\* graceful (exited-after-disconnect) worker exit creates no process.
C15_PoolNeverExceedsWorkerCount ==
  [][\A m \in DaemonPids :
       /\ (Start(m) /\ proc'[m].pc = "master") =>
            /\ Cardinality(Forked(proc, proc')) = workers
            /\ Forked(proc, proc') = Pool(proc', m)
            /\ Forked(proc, proc') \subseteq WorkerPids
       /\ Cardinality(LiveWorkers(proc', m)) <= workers
       /\ \A w \in WorkerPids :
            (OnExit(m, w) /\ proc[w].eAD) => Forked(proc, proc') = {}
    ]_vars

\* C15 witness: a master with a pool of two or more has answered a crash by
\* a fork and taken a graceful exit without one; its pool is one short
C15_Witness ==
  \E m \in DaemonPids :
    /\ proc[m].pc = "master" /\ workers >= 2
    /\ proc[m].forkCount = workers + 1
    /\ proc[m].gracefulExitCount = 1
    /\ Cardinality(Pool(proc, m)) = workers - 1
    /\ Cardinality(LiveWorkers(proc, m)) = workers - 1

\* C16: while a master runs its exitCount never decreases; the handling of an
\* ungraceful worker exit, sentinel code or not, increases it by exactly one
\* and the handling of a graceful exit leaves it as it is; and once the
\* master has refused a respawn with "exited too many times", the handling of
\* no later worker exit creates a process.
C16_RetryCounterMonotone ==
  [][\A m \in DaemonPids :
       /\ (proc[m].pc = "master" /\ proc'[m].pc = "master") =>
            proc'[m].exitCount >= proc[m].exitCount
       /\ \A w \in WorkerPids :
            /\ (OnExit(m, w) /\ ~proc[w].eAD) =>
                 proc'[m].exitCount = proc[m].exitCount + 1
            /\ (OnExit(m, w) /\ proc[w].eAD) =>
                 proc'[m].exitCount = proc[m].exitCount
            /\ (OnExit(m, w) /\ proc[m].denied >= 1) => Forked(proc, proc') = {}
    ]_vars

\* C16 witness: after a first refusal for too many exits a second worker has
\* ended ungracefully and has not been replaced either; sentinel exits were
\* counted on the way
C16_Witness ==
  \E m \in DaemonPids :
    /\ proc[m].pc = "master"
    /\ proc[m].denied = 2
    /\ proc[m].exitCount = RetryCeiling + 3
    /\ proc[m].crashCount < proc[m].exitCount

\* C17 as stated: the pidfile after the write of a `stop` or `restart`
\* command is what it was immediately before that write, whatever has been
\* written since the command loaded it.
C17_IdempotentRewrite ==
  [][\A c \in CmdPids : Control(c) => pidfile' = pidfile]_vars

\* C18 as stated: in every state at most one process is in the master role
\* with running workers.
C18_AtMostOneMaster ==
  Cardinality({m \in Pids : proc[m].pc = "master" /\ LiveWorkers(proc, m) # {}}) <= 1

\* C19 as stated: a worker whose master has handled the signal of a `stop`
\* command and exited does not create a process when it runs its `start`
\* handler, so that only a `start` command or a master's SIGHUP handler
\* ever launches a new master.
C19_NoRelaunchAfterStop ==
  [][\A w \in WorkerPids :
       (Start(w) /\ proc[proc[w].master].pc = "exited") =>
         /\ Forked(proc, proc') \cap DaemonPids = {}
         /\ proc'[w].pc # "forked"
    ]_vars

\* a master whose pool is empty: no worker runs and none awaits its handler
Drained(m) == proc[m].pc = "master" /\ Pool(proc, m) = {}

\* C20: a master calls cluster.fork() at most workerCount + 11 times in its
\* lifetime, whatever the sequence of worker exits; and when every worker it
\* forks ends, the master comes to have an empty pool and keeps it for ever,
\* forking no more.
C20_BoundedForks ==
  /\ [](\A m \in DaemonPids : proc[m].forkCount <= workers + RetryCeiling + 1)
  /\ <>[](\E m \in DaemonPids : Drained(m))

\* C20 witness: a master has forked workerCount + 11 times, every exit but
\* the last having been a crash answered by a fork, and its pool is empty
C20_Witness ==
  \E m \in DaemonPids :
    /\ Drained(m)
    /\ proc[m].forkCount = workers + RetryCeiling + 1
    /\ proc[m].denied >= 1

====
